---- MODULE Spec2Model ----
(***************************************************************************)
(* Model of detect_colors.py: resize_image, detect_colors (pixel tally),   *)
(* get_color_codes (palette matcher), get_association (name resolver) and  *)
(* the __main__ pipeline that chains them.                                 *)
(*                                                                         *)
(* Strings that the program builds or takes apart ('r:g:b' keys, '#RRGGBB' *)
(* codes) are sequences of one-character strings, so that formatting,      *)
(* splitting, parsing and marker stripping are computed, not assumed.      *)
(***************************************************************************)
EXTENDS Integers, Sequences, FiniteSets, TLC

(* ------------------------------ bounds -------------------------------- *)

\* Largest original width/height drawn for resize_image.
MaxDim == 120
\* Largest number of pixels of a resized image that the pixel scan is run on.
MaxPixels == 4
\* Largest number of rows of the colors table.
MaxPalette == 2
\* Largest length of the list handed to get_color_codes / get_association
\* when they are exercised on their own.
MaxDetected == 3

(* --------------------------- program constants ------------------------ *)

\* detect_colors: resize_image(width, height, threshold=100)
threshold == 100
\* __main__: detected_colors[0::10]
stride == 10

(* ------------------------------ input pools --------------------------- *)

\* Pixel colours an image may hold.  <<1,0,0>> lies at equal L1 distance
\* from the rows "black" and "dark" below.
PixelColors == { <<0, 0, 0>>, <<1, 0, 0>>, <<255, 0, 0>>, <<0, 0, 255>> }

Hash == "#"

\* Rows of the colors table (columns color, code, R, G, B).  "jet" repeats
\* the code of "black" under another name; "blue" stores its code without
\* the leading marker.
RowPool ==
    { [color |-> "black", code |-> <<"#","0","0","0","0","0","0">>, R |-> 0,   G |-> 0, B |-> 0],
      [color |-> "dark",  code |-> <<"#","0","2","0","0","0","0">>, R |-> 2,   G |-> 0, B |-> 0],
      [color |-> "red",   code |-> <<"#","F","F","0","0","0","0">>, R |-> 255, G |-> 0, B |-> 0],
      [color |-> "jet",   code |-> <<"#","0","0","0","0","0","0">>, R |-> 250, G |-> 0, B |-> 0],
      [color |-> "blue",  code |-> <<"0","0","0","0","F","F">>,     R |-> 0,   G |-> 0, B |-> 255] }

HexDigits == {"0","1","2","3","4","5","6","7","8","9","A","B","C","D","E","F"}

\* A stored code of the documented form: '#' followed by 6 hex digits.
WellFormedCode(c) ==
    /\ Len(c) = 7
    /\ c[1] = Hash
    /\ \A i \in 2..7 : c[i] \in HexDigits

SeqsUpTo(S, n) == UNION { [1..m -> S] : m \in 0..n }

Palettes == SeqsUpTo(RowPool, MaxPalette)

(* ------------------------------ helpers ------------------------------- *)

Max(a, b) == IF a >= b THEN a ELSE b

Abs(n) == IF n < 0 THEN -n ELSE n

Digits == <<"0","1","2","3","4","5","6","7","8","9">>

\* f'{n}' for a non-negative integer: its decimal digits.
RECURSIVE FormatInt(_)
FormatInt(n) ==
    IF n < 10 THEN << Digits[n + 1] >>
    ELSE FormatInt(n \div 10) \o << Digits[(n % 10) + 1] >>

\* int(s) for a string of decimal digits.
RECURSIVE ParseInt(_)
ParseInt(s) ==
    IF Len(s) = 0 THEN 0
    ELSE 10 * ParseInt(SubSeq(s, 1, Len(s) - 1))
         + (CHOOSE d \in 0..9 : Digits[d + 1] = s[Len(s)])

\* s.split(sep): the fields between the occurrences of sep.
RECURSIVE Split(_, _)
Split(s, sep) ==
    IF \A i \in 1..Len(s) : s[i] # sep THEN << s >>
    ELSE LET p == CHOOSE i \in 1..Len(s) :
                      s[i] = sep /\ \A j \in 1..(i - 1) : s[j] # sep
         IN  << SubSeq(s, 1, p - 1) >> \o Split(SubSeq(s, p + 1, Len(s)), sep)

\* rgb = f'{r}:{g}:{b}'
RgbKey(c) ==
    FormatInt(c[1]) \o <<":">> \o FormatInt(c[2]) \o <<":">> \o FormatInt(c[3])

\* row['code'].replace('#', '')
StripMarker(code) == SelectSeq(code, LAMBDA ch : ch # Hash)

\* f'#{color_code}'
WithMarker(code) == << Hash >> \o code

(* ------------------------------ resize_image -------------------------- *)

\* A mis-ordered computation: int(width / height) * threshold.
resize_image_divfirst(width, height, t) ==
    IF (width > t) \/ (height > t)
    THEN LET max_dim == Max(width, height)
             s0 == [new_width |-> 0, new_height |-> 0]
             s1 == IF height = max_dim
                   THEN [new_width |-> (width \div height) * t, new_height |-> t]
                   ELSE s0
             s2 == IF width = max_dim
                   THEN [new_height |-> (height \div width) * t, new_width |-> t]
                   ELSE s1
         IN  << s2.new_height, s2.new_width >>
    ELSE << height, width >>

\* resize_image(width, height, threshold): the tuple it returns,
\* (new_height, new_width) when a dimension exceeds the threshold and
\* (height, width) otherwise.  int(a * t / b) is the true quotient truncated
\* toward zero; for these magnitudes the float quotient truncates to a \div b.
resize_image(width, height, t) ==
    IF (width > t) \/ (height > t)
    THEN LET max_dim == Max(width, height)
             s0 == [new_width |-> 0, new_height |-> 0]
             s1 == IF height = max_dim
                   THEN [new_width |-> (width * t) \div height, new_height |-> t]
                   ELSE s0
             s2 == IF width = max_dim
                   THEN [new_height |-> (height * t) \div width, new_width |-> t]
                   ELSE s1
         IN  << s2.new_height, s2.new_width >>
    ELSE << height, width >>

(* ------------------------------- state -------------------------------- *)

VARIABLES
    pc,               \* position in the program
    W, H,             \* image.size of the opened image
    resized,          \* the tuple returned by resize_image
    width, height,    \* detect_colors' locals after line 62
    image,            \* the resized image: (x, y) -> (r, g, b)
    x, y,             \* loop indices of the pixel scan
    tally,            \* the dict detected_colors, in insertion order: <<key, count>>
    detected,         \* the sorted list detect_colors returns
    colors,           \* the colors table (a sequence of rows)
    dc_arg,           \* get_color_codes' parameter detected_colors
    n,                \* number of entries of dc_arg processed
    color_code,       \* best_match['code'] of the last entry processed
    color_codes,      \* get_color_codes' list color_codes
    produced,         \* history: every best-match code derived so far, in order
    cc_arg,           \* get_association's parameter color_codes
    m,                \* number of entries of cc_arg processed
    res,              \* get_association's list res
    report            \* what get_association returned

vars == << pc, W, H, resized, width, height, image, x, y, tally, detected,
           colors, dc_arg, n, color_code, color_codes, produced,
           cc_arg, m, res, report >>

detectVars == << W, H, resized, width, height, image, x, y, tally, detected >>
matchVars == << dc_arg, n, color_code, color_codes, produced >>
assocVars == << cc_arg, m, res, report >>

None == << >>
NoImage == [p \in {} |-> 0]

(* ----------------------------- detect_colors -------------------------- *)

\* The positions of a w x h image.
Positions(w, h) == (0..(w - 1)) \X (0..(h - 1))

\* detected_colors[rgb] += 1, or = 1 for a new key (appended last).
TallyResetting(d, key) ==
    IF \E i \in 1..Len(d) : d[i][1] = key
    THEN [i \in 1..Len(d) |-> IF d[i][1] = key THEN << key, 1 >> ELSE d[i]]
    ELSE Append(d, << key, 1 >>)

TallyAdd(d, key) ==
    IF \E i \in 1..Len(d) : d[i][1] = key
    THEN [i \in 1..Len(d) |-> IF d[i][1] = key THEN << key, d[i][2] + 1 >> ELSE d[i]]
    ELSE Append(d, << key, 1 >>)

\* Insertion before the entries of equal count: what sorting ascending and
\* reversing would give.
InsertBeforeTies(s, e) ==
    LET p == Cardinality({ i \in 1..Len(s) : s[i][2] > e[2] })
    IN  SubSeq(s, 1, p) \o << e >> \o SubSeq(s, p + 1, Len(s))

\* One insertion of the stable descending sort: e goes after every entry
\* whose count is at least its own.
InsertStable(s, e) ==
    LET p == Cardinality({ i \in 1..Len(s) : s[i][2] >= e[2] })
    IN  SubSeq(s, 1, p) \o << e >> \o SubSeq(s, p + 1, Len(s))

\* sorted(detected_colors.items(), key=lambda x:x[1], reverse=True):
\* descending by count, entries of equal count keep their dict order.
RECURSIVE SortedByCount(_)
SortedByCount(d) ==
    IF Len(d) = 0 THEN << >>
    ELSE InsertStable(SortedByCount(SubSeq(d, 1, Len(d) - 1)), d[Len(d)])

\* for x in range(0, width): for y in range(0, height): the pixel after
\* (cx, cy); x = w marks the end of the outer loop.
NextPixel(cx, cy, w, h) ==
    IF cy + 1 < h THEN << cx, cy + 1 >> ELSE << cx + 1, 0 >>

\* width, height = image.size ... resize_image(width, height, threshold=100)
CallResize ==
    /\ pc = "start"
    /\ resized' = resize_image(W, H, threshold)
    /\ pc' = "resized"
    /\ UNCHANGED << W, H, width, height, image, x, y, tally, detected, colors >>
    /\ UNCHANGED << matchVars, assocVars >>

\* width, height = <the returned tuple>
AssignDims ==
    /\ pc = "resized"
    /\ width' = resized[1]
    /\ height' = resized[2]
    /\ pc' = "dims"
    /\ UNCHANGED << W, H, resized, image, x, y, tally, detected, colors >>
    /\ UNCHANGED << matchVars, assocVars >>

\* image.resize((width, height)) with a zero dimension: Pillow raises
\* ValueError("height and width must be > 0") and the run ends.
ResizeImageFails ==
    /\ pc = "dims"
    /\ (width < 1 \/ height < 1)
    /\ pc' = "error"
    /\ UNCHANGED << detectVars, colors, matchVars, assocVars >>

\* image = image.resize((width, height)); detected_colors = {}.  The
\* resampled pixel values are whatever the interpolation yields.
ResizeImage ==
    /\ pc = "dims"
    /\ width >= 1 /\ height >= 1
    /\ image' \in [Positions(width, height) -> PixelColors]
    /\ x' = 0 /\ y' = 0
    /\ tally' = << >>
    /\ pc' = "scan"
    /\ UNCHANGED << W, H, resized, width, height, detected, colors >>
    /\ UNCHANGED << matchVars, assocVars >>

\* One iteration of the inner loop: tally image.getpixel((x, y)).
ScanPixel ==
    /\ pc = "scan"
    /\ x < width
    /\ tally' = TallyAdd(tally, RgbKey(image[<< x, y >>]))
    /\ LET nxt == NextPixel(x, y, width, height)
       IN  x' = nxt[1] /\ y' = nxt[2]
    /\ UNCHANGED << pc, W, H, resized, width, height, image, detected, colors >>
    /\ UNCHANGED << matchVars, assocVars >>

\* The loops are over: sort and return.
SortColors ==
    /\ pc = "scan"
    /\ x >= width
    /\ detected' = SortedByCount(tally)
    /\ pc' = "detected"
    /\ UNCHANGED << W, H, resized, width, height, image, x, y, tally, colors >>
    /\ UNCHANGED << matchVars, assocVars >>

\* Values of the variables a specification does not use.
IdleDetect ==
    /\ resized = None /\ width = 0 /\ height = 0 /\ image = NoImage
    /\ x = 0 /\ y = 0 /\ tally = << >> /\ detected = << >>
IdleMatch ==
    /\ dc_arg = << >> /\ n = 0 /\ color_code = None /\ color_codes = << >>
    /\ produced = << >>
IdleAssoc ==
    /\ cc_arg = << >> /\ m = 0 /\ res = << >> /\ report = None

(* ---------------- specification: resize_image as called --------------- *)

InitResize ==
    /\ pc = "start"
    /\ W \in 1..MaxDim /\ H \in 1..MaxDim
    /\ colors = << >>
    /\ IdleDetect /\ IdleMatch /\ IdleAssoc

NextResize == CallResize \/ AssignDims

SpecResize == InitResize /\ [][NextResize]_vars

(* ---------------- specification: detect_colors ------------------------ *)

\* Original sizes whose resized image has at most MaxPixels pixels.
ScanSizes ==
    { wh \in (1..MaxDim) \X (1..MaxDim) :
        LET r == resize_image(wh[1], wh[2], threshold)
        IN  r[1] * r[2] <= MaxPixels }

InitDetect ==
    /\ pc = "start"
    /\ \E wh \in ScanSizes : W = wh[1] /\ H = wh[2]
    /\ colors = << >>
    /\ IdleDetect /\ IdleMatch /\ IdleAssoc

NextDetect ==
    \/ CallResize
    \/ AssignDims
    \/ ResizeImageFails
    \/ ResizeImage
    \/ ScanPixel
    \/ SortColors

SpecDetect == InitDetect /\ [][NextDetect]_vars

(* ----------------------------- get_color_codes ------------------------ *)

Elems(s) == { s[i] : i \in 1..Len(s) }

\* One row's entry of color_map for the split key detected_color.
MapEntry(detected_color, row) ==
    LET r == Abs(ParseInt(detected_color[1]) - row.R)
        g == Abs(ParseInt(detected_color[2]) - row.G)
        b == Abs(ParseInt(detected_color[3]) - row.B)
    IN  [color |-> row.color, code |-> StripMarker(row.code), distance |-> r + g + b]

\* color_map for one entry of detected_colors: one element per row of the
\* colors table, in iterrows order.
ColorMap(entry) ==
    LET detected_color == Split(entry[1], ":")
    IN  [i \in 1..Len(colors) |-> MapEntry(detected_color, colors[i])]

\* A scan that replaces the running minimum on ties too: the last minimum.
RECURSIVE MinFromLast(_, _, _)
MinFromLast(cm, best, i) ==
    IF i > Len(cm) THEN best
    ELSE MinFromLast(cm, IF cm[i].distance <= best.distance THEN cm[i] ELSE best, i + 1)

\* min(color_map, key=...): the scan keeps the running minimum and replaces
\* it only by a strictly smaller element, so the first minimum wins.
RECURSIVE MinFrom(_, _, _)
MinFrom(cm, best, i) ==
    IF i > Len(cm) THEN best
    ELSE MinFrom(cm, IF cm[i].distance < best.distance THEN cm[i] ELSE best, i + 1)

\* best_match = min(color_map, key=lambda x:x['distance'])
BestMatch(cm) == MinFrom(cm, cm[1], 2)

\* min() of an empty list raises ValueError.
MinRaises(cm) == Len(cm) = 0

\* color_codes.append(color_code) without the membership test.
AppendAlways(list, code) == Append(list, code)

\* if color_code not in color_codes: color_codes.append(color_code)
AppendUnique(list, code) ==
    IF code \in Elems(list) THEN list ELSE Append(list, code)

\* An entry whose min() raised is skipped, as if the error were swallowed.
MatchSkipsEntry ==
    /\ pc = "matching"
    /\ n < Len(dc_arg)
    /\ MinRaises(ColorMap(dc_arg[n + 1]))
    /\ n' = n + 1
    /\ UNCHANGED << pc, detectVars, colors, dc_arg, color_code, color_codes,
                    produced, assocVars >>

\* One iteration of the loop over detected_colors.
MatchEntry ==
    /\ pc = "matching"
    /\ n < Len(dc_arg)
    /\ LET cm == ColorMap(dc_arg[n + 1])
       IN  /\ ~MinRaises(cm)
           /\ color_code' = BestMatch(cm).code
           /\ color_codes' = AppendUnique(color_codes, BestMatch(cm).code)
           /\ produced' = Append(produced, BestMatch(cm).code)
    /\ n' = n + 1
    /\ UNCHANGED << pc, detectVars, colors, dc_arg, assocVars >>

\* The iteration in which min() raises: the call ends in ValueError.
MatchRaises ==
    /\ pc = "matching"
    /\ n < Len(dc_arg)
    /\ MinRaises(ColorMap(dc_arg[n + 1]))
    /\ pc' = "error"
    /\ UNCHANGED << detectVars, colors, matchVars, assocVars >>

\* return color_codes
MatchReturn ==
    /\ pc = "matching"
    /\ n = Len(dc_arg)
    /\ pc' = "matched"
    /\ UNCHANGED << detectVars, colors, matchVars, assocVars >>

(* ----------------------------- get_association ------------------------ *)

\* A lookup that compares the codes with their markers stripped.
LookupIgnoringMarker(code) ==
    SelectSeq(colors, LAMBDA row : StripMarker(row.code) = code)

\* colors[colors['code'] == f'#{color_code}']: the rows whose stored code is
\* exactly '#' + color_code, in table order.
Lookup(code) ==
    SelectSeq(colors, LAMBDA row : row.code = WithMarker(code))

\* One iteration of the loop over color_codes: ['color'].values[0] of the
\* lookup, appended with the marked code.
AssocEntry ==
    /\ pc = "resolving"
    /\ m < Len(cc_arg)
    /\ LET found == Lookup(cc_arg[m + 1])
       IN  /\ Len(found) > 0
           /\ res' = Append(res, [color_name |-> found[1].color,
                                  color_code |-> WithMarker(cc_arg[m + 1])])
    /\ m' = m + 1
    /\ UNCHANGED << pc, detectVars, colors, matchVars, cc_arg, report >>

\* .values[0] of an empty selection raises IndexError.
AssocRaises ==
    /\ pc = "resolving"
    /\ m < Len(cc_arg)
    /\ Len(Lookup(cc_arg[m + 1])) = 0
    /\ pc' = "error"
    /\ UNCHANGED << detectVars, colors, matchVars, assocVars >>

\* return [] / return the data frame of res: the rows of res either way.
AssocReturn ==
    /\ pc = "resolving"
    /\ m = Len(cc_arg)
    /\ report' = res
    /\ pc' = "reported"
    /\ UNCHANGED << detectVars, colors, matchVars, cc_arg, m, res >>

(* ------------------------------- __main__ ----------------------------- *)

\* seq[0::step]: the elements at (0-based) indices 0, step, 2*step, ...
Slice(seq, step) ==
    [i \in 1..((Len(seq) + step - 1) \div step) |-> seq[(i - 1) * step + 1]]

\* color_codes = get_color_codes(detected_colors[0::10])
CallMatcher ==
    /\ pc = "detected"
    /\ dc_arg' = Slice(detected, stride)
    /\ n' = 0
    /\ color_codes' = << >>
    /\ pc' = "matching"
    /\ UNCHANGED << detectVars, colors, color_code, produced, assocVars >>

\* res = get_association(color_codes)
CallAssoc ==
    /\ pc = "matched"
    /\ cc_arg' = color_codes
    /\ m' = 0
    /\ res' = << >>
    /\ pc' = "resolving"
    /\ UNCHANGED << detectVars, colors, matchVars, report >>

(* ---------------- specification: get_color_codes ---------------------- *)

\* The entries detect_colors can produce for the colours of the pool.
DetectedEntries == { << RgbKey(c), 1 >> : c \in PixelColors }

InitMatch ==
    /\ pc = "matching"
    /\ W = 0 /\ H = 0
    /\ colors \in Palettes
    /\ dc_arg \in SeqsUpTo(DetectedEntries, MaxDetected)
    /\ n = 0 /\ color_code = None /\ color_codes = << >> /\ produced = << >>
    /\ IdleDetect /\ IdleAssoc

NextMatch == MatchEntry \/ MatchRaises \/ MatchReturn

SpecMatch == InitMatch /\ [][NextMatch]_vars

(* ---------------- specification: get_association ---------------------- *)

\* Codes as the matcher hands them over (marker stripped), and one code
\* that no row of the pool stores.
CodePool ==
    { StripMarker(row.code) : row \in RowPool } \cup { <<"F","F","F","F","F","F">> }

InitAssoc ==
    /\ pc = "resolving"
    /\ W = 0 /\ H = 0
    /\ colors \in Palettes
    /\ cc_arg \in SeqsUpTo(CodePool, MaxDetected)
    /\ m = 0 /\ res = << >> /\ report = None
    /\ IdleDetect /\ IdleMatch

NextAssoc == AssocEntry \/ AssocRaises \/ AssocReturn

SpecAssoc == InitAssoc /\ [][NextAssoc]_vars

(* ---------------- specification: the whole run ------------------------ *)

InitMain ==
    /\ pc = "start"
    /\ \E wh \in ScanSizes : W = wh[1] /\ H = wh[2]
    /\ colors \in Palettes
    /\ IdleDetect /\ IdleMatch /\ IdleAssoc

NextMain ==
    \/ CallResize
    \/ AssignDims
    \/ ResizeImageFails
    \/ ResizeImage
    \/ ScanPixel
    \/ SortColors
    \/ CallMatcher
    \/ MatchEntry
    \/ MatchRaises
    \/ MatchReturn
    \/ CallAssoc
    \/ AssocEntry
    \/ AssocRaises
    \/ AssocReturn

SpecMain == InitMain /\ [][NextMain]_vars

(* ---------------- claims about resize_image and its call -------------- *)

\* C1 (as stated): for an image with max(W, H) <= 100, the width and height
\* that detect_colors assigns from resize_image and then resizes to and
\* scans are W and H respectively.
C1_DimsUnchanged ==
    (pc = "dims" /\ Max(W, H) <= threshold) => (width = W /\ height = H)

\* C2: for max(W, H) > 100, of the two dimensions resize_image computes the
\* one of the larger original side is exactly 100 and the other is
\* (other original * 100) / (original larger) truncated toward zero; both
\* are <= 100, and both are 100 when W = H.
C2_Downsample ==
    (pc \in {"resized", "dims"} /\ Max(W, H) > threshold) =>
        LET new_height == resized[1]
            new_width == resized[2]
        IN  /\ Max(new_height, new_width) = threshold
            /\ new_height <= threshold /\ new_width <= threshold
            /\ (W >= H) => (new_width = threshold
                            /\ new_height * W <= H * threshold
                            /\ H * threshold < (new_height + 1) * W)
            /\ (H >= W) => (new_height = threshold
                            /\ new_width * H <= W * threshold
                            /\ W * threshold < (new_width + 1) * H)
            /\ (W = H) => (new_width = threshold /\ new_height = threshold)

\* C2 witness: a non-square image with a side over 100 has been resized to
\* a smaller side strictly between 0 and 100.
C2_Witness ==
    /\ pc = "resized"
    /\ W > threshold /\ H > threshold /\ W > H
    /\ resized[1] > 0 /\ resized[1] < threshold

\* C10 (as stated): for W >= 1 and H >= 1 both dimensions handed to the
\* resize and the pixel scan are >= 1.
C10_DimsPositive ==
    (pc = "dims" /\ W >= 1 /\ H >= 1) => (width >= 1 /\ height >= 1)

(* ---------------- claims about the colour tally ----------------------- *)

RECURSIVE SumCounts(_)
SumCounts(d) ==
    IF Len(d) = 0 THEN 0 ELSE d[Len(d)][2] + SumCounts(SubSeq(d, 1, Len(d) - 1))

\* The keys of the colours present in the resized image.
ImageKeys == { RgbKey(image[p]) : p \in Positions(width, height) }

\* C7: during the scan the counts sum to the number of pixels visited so
\* far; after it they sum to width * height; every tallied colour is the
\* colour of some pixel of the resized image.
C7_TallyCounts ==
    /\ pc = "scan" =>
          /\ SumCounts(tally) = x * height + y
          /\ \A i \in 1..Len(tally) : tally[i][1] \in ImageKeys
    /\ pc = "detected" =>
          /\ SumCounts(tally) = width * height
          /\ SumCounts(detected) = width * height
          /\ \A i \in 1..Len(detected) : detected[i][1] \in ImageKeys

\* C7 witness: a scan is over in which some colour was seen again and
\* another colour was seen too.
C7_Witness ==
    /\ pc = "detected"
    /\ Len(detected) >= 2
    /\ \E i \in 1..Len(detected) : detected[i][2] >= 2

\* Rank of the first pixel of colour key in the x-major, y-minor scan.
FirstSeen(key) ==
    CHOOSE r \in 0..(width * height - 1) :
        /\ \E p \in Positions(width, height) :
              r = p[1] * height + p[2] /\ RgbKey(image[p]) = key
        /\ \A p \in Positions(width, height) :
              RgbKey(image[p]) = key => r <= p[1] * height + p[2]

\* The same rank had the scan been y-major, x-minor.
FirstSeenYMajor(key) ==
    CHOOSE r \in 0..(width * height - 1) :
        /\ \E p \in Positions(width, height) :
              r = p[2] * width + p[1] /\ RgbKey(image[p]) = key
        /\ \A p \in Positions(width, height) :
              RgbKey(image[p]) = key => r <= p[2] * width + p[1]

\* C8: the returned list is ordered by non-increasing count, and colours
\* of equal count appear in the order the x-major, y-minor scan first met
\* them.
C8_SortedStable ==
    pc = "detected" =>
        \A i, j \in 1..Len(detected) :
            i < j =>
                /\ detected[i][2] >= detected[j][2]
                /\ detected[i][2] = detected[j][2] =>
                       FirstSeen(detected[i][1]) < FirstSeen(detected[j][1])

\* C8 witness: two colours tie, follow a more frequent one, and a y-major
\* scan would have met them in the other order.
C8_Witness ==
    /\ pc = "detected"
    /\ \E i, j \in 1..Len(detected) :
          /\ 1 < i /\ i < j
          /\ detected[i][2] = detected[j][2]
          /\ FirstSeenYMajor(detected[i][1]) > FirstSeenYMajor(detected[j][1])

(* ---------------- claims about the palette matcher -------------------- *)

\* The colour of the pool whose key is the given one.
ColourOfKey(key) == CHOOSE c \in PixelColors : RgbKey(c) = key

\* |r - R| + |g - G| + |b - B|
L1(c, row) == Abs(c[1] - row.R) + Abs(c[2] - row.G) + Abs(c[3] - row.B)

\* The first row, in table order, at the smallest L1 distance from c.
Nearest(c) ==
    CHOOSE i \in 1..Len(colors) :
        /\ \A j \in 1..Len(colors) : L1(c, colors[i]) <= L1(c, colors[j])
        /\ \A j \in 1..(i - 1) : L1(c, colors[j]) > L1(c, colors[i])

\* s without the repetitions of an element after its first occurrence.
RECURSIVE Dedup(_)
Dedup(s) ==
    IF Len(s) = 0 THEN << >>
    ELSE LET front == Dedup(SubSeq(s, 1, Len(s) - 1))
         IN  IF s[Len(s)] \in Elems(front) THEN front ELSE Append(front, s[Len(s)])

\* C4: after each detected colour is processed, the code list holds no
\* code twice, every code in it is the marker-stripped stored code of some
\* row of the table, and the codes are in the order in which they were
\* first produced.
C4_UniqueKnownCodes ==
    pc \in {"matching", "matched"} =>
        /\ \A i, j \in 1..Len(color_codes) :
              i # j => color_codes[i] # color_codes[j]
        /\ \A i \in 1..Len(color_codes) :
              \E k \in 1..Len(colors) : color_codes[i] = StripMarker(colors[k].code)
        /\ Len(produced) = n
        /\ color_codes = Dedup(produced)

\* C4 witness: the matcher returned fewer codes than it produced, and more
\* than one.
C4_Witness ==
    /\ pc = "matched"
    /\ Len(color_codes) >= 2
    /\ Len(produced) > Len(color_codes)

\* C5 (as stated): with an empty table every call of the matcher, the one
\* on the empty list included, ends in an error and returns no code list.
C5_EmptyPaletteAlwaysFails ==
    Len(colors) = 0 => pc # "matched"

\* C5 (amended): with an empty table, a call on a non-empty list processes
\* no entry, can only raise, and never returns; a call on the empty list
\* returns the empty code list.
C5_EmptyPaletteFailsOnFirstEntry ==
    Len(colors) = 0 =>
        /\ Len(dc_arg) > 0 =>
              /\ pc \in {"matching", "error"}
              /\ n = 0 /\ color_codes = << >>
              /\ pc = "matching" =>
                    (ENABLED MatchRaises /\ ~ENABLED MatchEntry /\ ~ENABLED MatchReturn)
        /\ Len(dc_arg) = 0 =>
              /\ pc \in {"matching", "matched"}
              /\ color_codes = << >>
              /\ pc = "matching" => (ENABLED MatchReturn /\ ~ENABLED MatchRaises)

\* C5 witness: the call on a non-empty list with an empty table has ended
\* in the error.
C5_Witness ==
    /\ Len(colors) = 0
    /\ Len(dc_arg) > 0
    /\ pc = "error"

\* C9: the code derived for a detected colour is the marker-stripped code
\* of the first row, in table order, among those at the smallest L1
\* distance; with a one-row table and a non-empty input the output is
\* exactly that row's code.
C9_NearestFirst ==
    (pc \in {"matching", "matched"} /\ n >= 1) =>
        /\ color_code =
              StripMarker(colors[Nearest(ColourOfKey(dc_arg[n][1]))].code)
        /\ \A i \in 1..n :
              produced[i] =
                  StripMarker(colors[Nearest(ColourOfKey(dc_arg[i][1]))].code)
        /\ Len(colors) = 1 => color_codes = << StripMarker(colors[1].code) >>

\* C9 witness: the colour just processed is at the smallest distance from
\* two rows of different codes.
C9_Witness ==
    /\ pc = "matching"
    /\ n >= 1
    /\ \E i, j \in 1..Len(colors) :
          /\ i < j
          /\ i = Nearest(ColourOfKey(dc_arg[n][1]))
          /\ L1(ColourOfKey(dc_arg[n][1]), colors[i])
                = L1(ColourOfKey(dc_arg[n][1]), colors[j])
          /\ StripMarker(colors[i].code) # StripMarker(colors[j].code)

(* ---------------- claims about the name resolver ---------------------- *)

\* Some row stores exactly '#' + code.
Stored(code) == \E k \in 1..Len(colors) : colors[k].code = WithMarker(code)

\* The first row that stores exactly '#' + code.
FirstStored(code) ==
    CHOOSE k \in 1..Len(colors) :
        /\ colors[k].code = WithMarker(code)
        /\ \A j \in 1..(k - 1) : colors[j].code # WithMarker(code)

\* C6: if every input code is stored (as '#' + code) by some row, the
\* output has exactly one (name, '#' + code) row per input code, in input
\* order; otherwise the call ends in an error and produces no output rows.
C6_ResolveAllOrFail ==
    LET allStored == \A i \in 1..Len(cc_arg) : Stored(cc_arg[i])
    IN  /\ pc = "reported" =>
              /\ allStored
              /\ Len(report) = Len(cc_arg)
              /\ \A i \in 1..Len(cc_arg) :
                    report[i] = [color_name |-> colors[FirstStored(cc_arg[i])].color,
                                 color_code |-> WithMarker(cc_arg[i])]
        /\ pc = "error" => (~allStored /\ report = None)
        /\ pc = "resolving" =>
              /\ report = None
              /\ ENABLED NextAssoc
              /\ allStored => ~ENABLED AssocRaises
              /\ (m < Len(cc_arg) /\ ~Stored(cc_arg[m + 1])) =>
                    (~ENABLED AssocEntry /\ ~ENABLED AssocReturn)

\* C6 witness: two codes were resolved against a table in which a later
\* row repeats the code of an earlier one.
C6_Witness ==
    /\ pc = "reported"
    /\ Len(report) = 2
    /\ \E k \in 1..Len(colors) :
          colors[k].code = WithMarker(cc_arg[1]) /\ k # FirstStored(cc_arg[1])

(* ---------------- claims about the whole run -------------------------- *)

\* C3 (as stated): for every non-empty image and every non-empty table of
\* well-formed codes the run completes without error, and the first row of
\* the report is the name and marked code of the row nearest to the most
\* frequent pixel colour of the resized image.
C3_FirstRowIsNearest ==
    (Len(colors) > 0 /\ \A k \in 1..Len(colors) : WellFormedCode(colors[k].code)) =>
        /\ pc # "error"
        /\ pc = "reported" =>
              /\ Len(report) >= 1
              /\ LET top == colors[Nearest(ColourOfKey(detected[1][1]))]
                 IN  report[1] = [color_name |-> top.color, color_code |-> top.code]

====
